---- MODULE Spec2Model ----
(***************************************************************************)
(* create_dmg_background.py: one procedure, create_dmg_background(), that  *)
(* paints a 500x300 gradient row by row, resolves two fonts through a      *)
(* try/except chain, draws two shadowed strings, ensures the output        *)
(* directory, saves the PNG and prints one line.                           *)
(*                                                                         *)
(* The canvas is kept as the list of drawing calls made on it: per row the *)
(* draw.line calls (clipped to the canvas), and the draw.text calls in     *)
(* order.  The value of a pixel is derived from that list (PixelAt).       *)
(* A draw.text call covers the rectangle that textbbox reports for the     *)
(* string, moved to the call's position.                                   *)
(*                                                                         *)
(* The host is what the script reads: whether each font file loads at a    *)
(* size (ImageFont.truetype), what textbbox measures, whether the          *)
(* directory and the file exist, and whether makedirs and save succeed.    *)
(* A host answers the same font query the same way every time it is asked  *)
(* (fontFiles, metrics); the answers are drawn when first asked.           *)
(***************************************************************************)
EXTENDS Integers, Sequences, FiniteSets, TLC

VARIABLES
    pc,          \* position in create_dmg_background
    run,         \* which invocation of the script this is (1, 2, ...)
    width,       \* line 12
    height,      \* line 12
    image,       \* line 13: the canvas, as the drawing calls made on it
    i,           \* line 17: position of the range(height) iterator
    x,           \* lines 39, 55
    y,           \* lines 17, 40, 56
    font,        \* lines 26-31
    small_font,  \* lines 49-51
    bbox,        \* lines 35, 53
    text_width,  \* lines 36, 54
    text_height, \* line 37
    loads,       \* the font loads attempted in this run, in order
    mkdirs,      \* the os.makedirs calls of this run: their outcomes, in order
    saves,       \* the image.save calls of this run: their outcomes, in order
    stdout,      \* the lines printed in this run
    dirExists,   \* filesystem: native/resources is a directory
    dirAtStart,  \* dirExists when this run started
    file,        \* filesystem: native/resources/dmg_background.png
    fontFiles,   \* host: the outcome of each font load asked so far
    metrics,     \* host: the textbbox of each (font, string) asked so far
    prev         \* what the previous run left: its canvas and what it wrote

vars == << pc, run, width, height, image, i, x, y, font, small_font, bbox,
           text_width, text_height, loads, mkdirs, saves, stdout, dirExists,
           dirAtStart, file, fontFiles, metrics, prev >>

(***************************************************************************)
(* Bounds of the model.                                                    *)
(***************************************************************************)
\* The widest text a font of the host may measure (wider than the canvas).
MaxTextWidth == 503
\* How many times the script is run in a row on the same host.
MaxRuns == 2

(***************************************************************************)
(* Constants of the program.                                               *)
(***************************************************************************)
Width == 500
Height == 300
GradientBase == 240
GradientSpan == 15
GreenOffset == 10
BlueOffset == 20
TitleSize == 24
SubtitleSize == 16
TitleShadowOffset == 2
SubtitleShadowOffset == 1
TitleGap == 10
SubtitleGap == 10
TitleShadowGrey == 100
TitleGrey == 50
SubtitleShadowGrey == 120
SubtitleGrey == 80

ArialPath == "/System/Library/Fonts/Arial.ttf"
HelveticaPath == "/System/Library/Fonts/Helvetica.ttc"
title == "Autobuild"
subtitle == "Drag to Applications folder"
output_path == "native/resources/dmg_background.png"
ConfirmationLine == "DMG background image created: native/resources/dmg_background.png"

Rows == 0 .. (Height - 1)
White == << 255, 255, 255 >>
Grey(v) == << v, v, v >>

(***************************************************************************)
(* Fonts.  A font handle is the file it was loaded from and its size; the  *)
(* built-in font of ImageFont.load_default() is embedded in the library    *)
(* and has no file.                                                        *)
(***************************************************************************)
Truetype(path, size) == [path |-> path, size |-> size]
DefaultFont == [path |-> "<default>", size |-> 0]
NoFont == [path |-> "<unset>", size |-> 0]

\* The host's answer to ImageFont.truetype(path, size): TRUE when it loads.
LoadKey(path, size) == << path, size >>
TruetypeOutcomes(path, size) ==
    IF LoadKey(path, size) \in DOMAIN fontFiles
    THEN { fontFiles[LoadKey(path, size)] }
    ELSE BOOLEAN

\* Lines 24-31: try Arial, except: try Helvetica, except: load_default().
TitleFontSkipSecondary(arialOK, helveticaOK) ==
    IF arialOK THEN Truetype(ArialPath, TitleSize) ELSE DefaultFont
TitleFont(arialOK, helveticaOK) ==
    IF arialOK THEN Truetype(ArialPath, TitleSize)
    ELSE IF helveticaOK THEN Truetype(HelveticaPath, TitleSize)
    ELSE DefaultFont

\* Lines 48-51: try Arial, except: load_default().
SubtitleFontSecondary(arialOK) ==
    IF arialOK THEN Truetype(ArialPath, SubtitleSize)
    ELSE Truetype(HelveticaPath, SubtitleSize)
SubtitleFont(arialOK) ==
    IF arialOK THEN Truetype(ArialPath, SubtitleSize) ELSE DefaultFont

(***************************************************************************)
(* The gradient, lines 17-21.                                              *)
(***************************************************************************)
\* Line 19: int(240 + (15 * y / height)).  15 * y / height is a float
\* division; for 0 <= row its value is never within rounding of an integer
\* it does not equal, and int() truncates, which for a value >= 0 is the
\* floor.
ColorValueReversed(row) ==
    (GradientBase * Height + GradientSpan * (Height - row)) \div Height
ColorValue(row) == (GradientBase * Height + GradientSpan * row) \div Height

\* Line 20.
RowColorFlat(row) == << ColorValue(row), ColorValue(row), ColorValue(row) >>
RowColor(row) ==
    << ColorValue(row), ColorValue(row) + GreenOffset, ColorValue(row) + BlueOffset >>

\* Line 21: draw.line([(0, y), (width, y)], fill=color) paints both end
\* points and what lies between, as far as it is on the canvas.
Min(a, b) == IF a <= b THEN a ELSE b
Max(a, b) == IF a >= b THEN a ELSE b
LineOp(x0, x1, row, fill) ==
    [x0 |-> Max(x0, 0), x1 |-> Min(x1, Width - 1), fill |-> fill]
DrawLineNextRow(img, x0, x1, row, fill) ==
    [img EXCEPT !.lines[Min(row + 1, Height - 1)] = Append(@, LineOp(x0, x1, row, fill))]
DrawLine(img, x0, x1, row, fill) ==
    [img EXCEPT !.lines[row] = Append(@, LineOp(x0, x1, row, fill))]

\* Line 13: Image.new('RGB', (width, height), color='white').
\* It starts white whatever the output file holds.
NewImage == [lines |-> [r \in Rows |-> << >>], texts |-> << >>]
AllocateFromFile(existing) ==
    IF existing.state = "png" THEN existing.data ELSE NewImage
AllocateCanvas(existing) == NewImage

Init ==
    /\ pc = "gradient"
    /\ run = 1
    /\ width = Width
    /\ height = Height
    /\ i = 0
    /\ x = 0
    /\ y = 0
    /\ font = NoFont
    /\ small_font = NoFont
    /\ bbox = << 0, 0, 0, 0 >>
    /\ text_width = 0
    /\ text_height = 0
    /\ loads = << >>
    /\ mkdirs = << >>
    /\ saves = << >>
    /\ stdout = << >>
    /\ dirExists \in BOOLEAN
    /\ dirAtStart = dirExists
    /\ file \in { [state |-> "absent", data |-> NewImage] }
                \cup (IF dirExists THEN { [state |-> "old", data |-> NewImage] } ELSE {})
    /\ image = AllocateCanvas(file)
    /\ fontFiles = << >>
    /\ metrics = << >>
    /\ prev = [image |-> NewImage, wrote |-> FALSE, data |-> NewImage]

\* Lines 17-21: one iteration of the loop.
PaintRow ==
    /\ pc = "gradient"
    /\ i < height
    /\ y' = i
    /\ i' = i + 1
    /\ image' = DrawLine(image, 0, width, i, RowColor(i))
    /\ pc' = IF i + 1 < height THEN "gradient" ELSE "title_font"
    /\ UNCHANGED << run, width, height, x, font, small_font, bbox, text_width,
                    text_height, loads, mkdirs, saves, stdout, dirExists,
                    dirAtStart, file, fontFiles, metrics, prev >>

(***************************************************************************)
(* Text, lines 33-59.                                                      *)
(***************************************************************************)
\* What draw.textbbox((0, 0), s, font=f) may report on a host:
\* (left, top, right, bottom).  The built-in font is small and fixed by the
\* library's version; a font file of the host may be any font, also one
\* whose text is wider than the canvas.
TextBBoxes(f, s) ==
    IF f = DefaultFont
    THEN IF s = title
         THEN { << 0, 0, 54, 11 >>, << 0, 3, 47, 13 >> }
         ELSE { << 0, 0, 162, 11 >>, << 0, 3, 139, 13 >> }
    ELSE { << 1, 5, 112, 23 >>,
           << 0, 4, MaxTextWidth - 1, 20 >>,
           << 0, 4, MaxTextWidth, 20 >> }

MetricKey(f, s) == << f, s >>
TextBBoxOutcomes(f, s) ==
    IF MetricKey(f, s) \in DOMAIN metrics
    THEN { metrics[MetricKey(f, s)] }
    ELSE TextBBoxes(f, s)

\* Lines 36, 54: bbox[2] - bbox[0]; line 37: bbox[3] - bbox[1].
BBoxWidth(bb) == bb[3] - bb[1]
BBoxHeight(bb) == bb[4] - bb[2]

\* Lines 39, 55: (width - text_width) // 2.  Python's // is the floor
\* division, as \div is.
TruncDiv(n, d) == IF n >= 0 THEN n \div d ELSE -((-n) \div d)
CenterXTowardZero(w, tw) == TruncDiv(w - tw, 2)
CenterX(w, tw) == (w - tw) \div 2

\* Line 40: height // 2 - text_height - 10.
TitleY(h, th) == (h \div 2) - th - TitleGap

\* Line 56: height // 2 + 10.
SubtitleY(h) == (h \div 2) + SubtitleGap

\* draw.text((px, py), s, fill=fill, font=f): one call on the canvas.
TextOp(px, py, s, fill, f, bb) ==
    [x |-> px, y |-> py, string |-> s, fill |-> fill, font |-> f, bbox |-> bb]
DrawText(img, px, py, s, fill, f, bb) ==
    [img EXCEPT !.texts = Append(@, TextOp(px, py, s, fill, f, bb))]

\* The canvas pixels a draw.text call paints: the string's box at the
\* call's position.
Covers(op, px, py) ==
    /\ op.x + op.bbox[1] <= px
    /\ px < op.x + op.bbox[3]
    /\ op.y + op.bbox[2] <= py
    /\ py < op.y + op.bbox[4]

\* An 'RGB' canvas stores 8 bits a channel: the ink of a drawing call is
\* clipped to 0..255 when the call is made.
Clip8(v) == IF v < 0 THEN 0 ELSE IF v > 255 THEN 255 ELSE v
Ink(fill) == << Clip8(fill[1]), Clip8(fill[2]), Clip8(fill[3]) >>

\* The colour of canvas pixel (px, py): the last call that painted it.
RECURSIVE LastText(_, _, _, _)
LastText(texts, n, px, py) ==
    IF n = 0 THEN 0
    ELSE IF Covers(texts[n], px, py) THEN n
    ELSE LastText(texts, n - 1, px, py)
RECURSIVE LastLine(_, _, _)
LastLine(ls, n, px) ==
    IF n = 0 THEN 0
    ELSE IF ls[n].x0 <= px /\ px <= ls[n].x1 THEN n
    ELSE LastLine(ls, n - 1, px)
PixelAt(img, px, py) ==
    LET t == LastText(img.texts, Len(img.texts), px, py)
        l == LastLine(img.lines[py], Len(img.lines[py]), px)
    IN  IF t > 0 THEN Ink(img.texts[t].fill)
        ELSE IF l > 0 THEN Ink(img.lines[py][l].fill)
        ELSE White

\* Lines 24-31.
LoadTitleFont ==
    /\ pc = "title_font"
    /\ \E arialOK \in TruetypeOutcomes(ArialPath, TitleSize) :
         IF arialOK
         THEN /\ font' = TitleFont(TRUE, FALSE)
              /\ loads' = Append(loads, << ArialPath, TitleSize, TRUE >>)
              /\ fontFiles' = (LoadKey(ArialPath, TitleSize) :> TRUE) @@ fontFiles
         ELSE \E helveticaOK \in TruetypeOutcomes(HelveticaPath, TitleSize) :
              /\ font' = TitleFont(FALSE, helveticaOK)
              /\ loads' = loads \o << << ArialPath, TitleSize, FALSE >>,
                                      << HelveticaPath, TitleSize, helveticaOK >> >>
              /\ fontFiles' = (LoadKey(ArialPath, TitleSize) :> FALSE)
                              @@ (LoadKey(HelveticaPath, TitleSize) :> helveticaOK)
                              @@ fontFiles
    /\ pc' = "title_measure"
    /\ UNCHANGED << run, width, height, image, i, x, y, small_font, bbox,
                    text_width, text_height, mkdirs, saves, stdout, dirExists,
                    dirAtStart, file, metrics, prev >>

\* Lines 34-40.
MeasureTitle ==
    /\ pc = "title_measure"
    /\ \E bb \in TextBBoxOutcomes(font, title) :
         /\ bbox' = bb
         /\ metrics' = (MetricKey(font, title) :> bb) @@ metrics
         /\ text_width' = BBoxWidth(bb)
         /\ text_height' = BBoxHeight(bb)
         /\ x' = CenterX(width, BBoxWidth(bb))
         /\ y' = TitleY(height, BBoxHeight(bb))
    /\ pc' = "title_shadow"
    /\ UNCHANGED << run, width, height, image, i, font, small_font, loads,
                    mkdirs, saves, stdout, dirExists, dirAtStart, file,
                    fontFiles, prev >>

\* Line 43.
DrawTitleShadow ==
    /\ pc = "title_shadow"
    /\ image' = DrawText(image, x + TitleShadowOffset, y + TitleShadowOffset,
                         title, Grey(TitleShadowGrey), font, bbox)
    /\ pc' = "title_text"
    /\ UNCHANGED << run, width, height, i, x, y, font, small_font, bbox,
                    text_width, text_height, loads, mkdirs, saves, stdout,
                    dirExists, dirAtStart, file, fontFiles, metrics, prev >>

\* Line 44.
DrawTitleUnderShadow ==
    /\ pc = "title_text"
    /\ image' = [image EXCEPT !.texts =
                     << TextOp(x, y, title, Grey(TitleGrey), font, bbox) >> \o @]
    /\ pc' = "subtitle_font"
    /\ UNCHANGED << run, width, height, i, x, y, font, small_font, bbox,
                    text_width, text_height, loads, mkdirs, saves, stdout,
                    dirExists, dirAtStart, file, fontFiles, metrics, prev >>
DrawTitle ==
    /\ pc = "title_text"
    /\ image' = DrawText(image, x, y, title, Grey(TitleGrey), font, bbox)
    /\ pc' = "subtitle_font"
    /\ UNCHANGED << run, width, height, i, x, y, font, small_font, bbox,
                    text_width, text_height, loads, mkdirs, saves, stdout,
                    dirExists, dirAtStart, file, fontFiles, metrics, prev >>

\* Lines 47-51.
LoadSubtitleFont ==
    /\ pc = "subtitle_font"
    /\ \E arialOK \in TruetypeOutcomes(ArialPath, SubtitleSize) :
         /\ small_font' = SubtitleFont(arialOK)
         /\ loads' = Append(loads, << ArialPath, SubtitleSize, arialOK >>)
         /\ fontFiles' = (LoadKey(ArialPath, SubtitleSize) :> arialOK) @@ fontFiles
    /\ pc' = "subtitle_measure"
    /\ UNCHANGED << run, width, height, image, i, x, y, font, bbox, text_width,
                    text_height, mkdirs, saves, stdout, dirExists, dirAtStart,
                    file, metrics, prev >>

\* Lines 53-56.
MeasureSubtitle ==
    /\ pc = "subtitle_measure"
    /\ \E bb \in TextBBoxOutcomes(small_font, subtitle) :
         /\ bbox' = bb
         /\ metrics' = (MetricKey(small_font, subtitle) :> bb) @@ metrics
         /\ text_width' = BBoxWidth(bb)
         /\ x' = CenterX(width, BBoxWidth(bb))
    /\ y' = SubtitleY(height)
    /\ pc' = "subtitle_shadow"
    /\ UNCHANGED << run, width, height, image, i, font, small_font,
                    text_height, loads, mkdirs, saves, stdout, dirExists,
                    dirAtStart, file, fontFiles, prev >>

\* Line 58.
DrawSubtitleShadow ==
    /\ pc = "subtitle_shadow"
    /\ image' = DrawText(image, x + SubtitleShadowOffset, y + SubtitleShadowOffset,
                         subtitle, Grey(SubtitleShadowGrey), small_font, bbox)
    /\ pc' = "subtitle_text"
    /\ UNCHANGED << run, width, height, i, x, y, font, small_font, bbox,
                    text_width, text_height, loads, mkdirs, saves, stdout,
                    dirExists, dirAtStart, file, fontFiles, metrics, prev >>

\* Line 59.
DrawSubtitle ==
    /\ pc = "subtitle_text"
    /\ image' = DrawText(image, x, y, subtitle, Grey(SubtitleGrey), small_font, bbox)
    /\ pc' = "makedirs"
    /\ UNCHANGED << run, width, height, i, x, y, font, small_font, bbox,
                    text_width, text_height, loads, mkdirs, saves, stdout,
                    dirExists, dirAtStart, file, fontFiles, metrics, prev >>

(***************************************************************************)
(* Output, lines 61-65.  Neither call is inside a try: an exception ends   *)
(* the run.                                                                *)
(***************************************************************************)
\* Line 63: os.makedirs(dirname, exist_ok=True) returns when the directory
\* is there; when it is not, it creates it or raises.
MakedirsOutcomesNoExistOk == IF dirExists THEN { FALSE } ELSE BOOLEAN
MakedirsOutcomes == IF dirExists THEN { TRUE } ELSE BOOLEAN

MakeDirsIgnoringErrors ==
    /\ pc = "makedirs"
    /\ \E ok \in MakedirsOutcomes :
         /\ mkdirs' = Append(mkdirs, ok)
         /\ dirExists' = (dirExists \/ ok)
         /\ pc' = "save"
    /\ UNCHANGED << run, width, height, image, i, x, y, font, small_font, bbox,
                    text_width, text_height, loads, saves, stdout, dirAtStart,
                    file, fontFiles, metrics, prev >>
MakeDirs ==
    /\ pc = "makedirs"
    /\ \E ok \in MakedirsOutcomes :
         /\ mkdirs' = Append(mkdirs, ok)
         /\ dirExists' = (dirExists \/ ok)
         /\ pc' = IF ok THEN "save" ELSE "failed"
    /\ UNCHANGED << run, width, height, image, i, x, y, font, small_font, bbox,
                    text_width, text_height, loads, saves, stdout, dirAtStart,
                    file, fontFiles, metrics, prev >>

\* Line 64: image.save(output_path, "PNG") writes the canvas over whatever
\* the file held, or raises; a save that raises may leave the file as it
\* was, absent, or partly written.
PngOf(img) == [state |-> "png", data |-> img]
FailedSaveLeaves ==
    { file, [state |-> "absent", data |-> NewImage],
            [state |-> "partial", data |-> NewImage] }

Save ==
    /\ pc = "save"
    /\ \/ /\ saves' = Append(saves, TRUE)
          /\ file' = PngOf(image)
          /\ pc' = "print"
       \/ /\ saves' = Append(saves, FALSE)
          /\ file' \in FailedSaveLeaves
          /\ pc' = "failed"
    /\ UNCHANGED << run, width, height, image, i, x, y, font, small_font, bbox,
                    text_width, text_height, loads, mkdirs, stdout, dirExists,
                    dirAtStart, fontFiles, metrics, prev >>

\* Line 65.
PrintLine ==
    /\ pc = "print"
    /\ stdout' = Append(stdout, ConfirmationLine)
    /\ pc' = "done"
    /\ UNCHANGED << run, width, height, image, i, x, y, font, small_font, bbox,
                    text_width, text_height, loads, mkdirs, saves, dirExists,
                    dirAtStart, file, fontFiles, metrics, prev >>

\* Lines 67-68: the script is run again on the same host.  The filesystem is
\* what the run before left; everything else starts afresh.
RunAgain ==
    /\ pc \in { "done", "failed" }
    /\ run < MaxRuns
    /\ run' = run + 1
    /\ prev' = [image |-> image,
                wrote |-> (pc = "done"),
                data |-> IF pc = "done" THEN file.data ELSE NewImage]
    /\ pc' = "gradient"
    /\ image' = AllocateCanvas(file)
    /\ i' = 0
    /\ x' = 0
    /\ y' = 0
    /\ font' = NoFont
    /\ small_font' = NoFont
    /\ bbox' = << 0, 0, 0, 0 >>
    /\ text_width' = 0
    /\ text_height' = 0
    /\ loads' = << >>
    /\ mkdirs' = << >>
    /\ saves' = << >>
    /\ stdout' = << >>
    /\ dirAtStart' = dirExists
    /\ UNCHANGED << width, height, dirExists, file, fontFiles, metrics >>

Run ==
    \/ PaintRow
    \/ LoadTitleFont
    \/ MeasureTitle
    \/ DrawTitleShadow
    \/ DrawTitle
    \/ LoadSubtitleFont
    \/ MeasureSubtitle
    \/ DrawSubtitleShadow
    \/ DrawSubtitle
    \/ MakeDirs
    \/ Save
    \/ PrintLine

\* One run of the script.
Next == Run

Spec == Init /\ [][Next]_vars

\* The script run MaxRuns times in a row on one host.
NextRuns == Run \/ RunAgain

SpecRuns == Init /\ [][NextRuns]_vars

(***************************************************************************)
(* What the claims speak of.                                               *)
(***************************************************************************)
GradientDone == pc # "gradient"
DrawingDone == pc \in { "makedirs", "save", "print", "done", "failed" }
PaintedRows == { r \in Rows : Len(image.lines[r]) > 0 }
\* The colour the gradient pass handed to draw.line for a painted row.
PassedColor(r) == image.lines[r][1].fill
T(r) == PassedColor(r)[1]

\* C1: in the gradient pass the scalar t(y) = int(240 + 15*y/300) lies in
\* 240..255 for every row painted, it is the first channel of the colour
\* handed to draw.line, and it never decreases from a row to a later row.
GradientMonotone ==
    /\ \A r \in PaintedRows :
         /\ T(r) >= 240
         /\ T(r) <= 255
         /\ i > 0 /\ r <= i - 1 /\ T(r) <= T(i - 1)
    /\ pc = "title_font" =>
         \A y1 \in Rows : \A y2 \in Rows : y1 < y2 => T(y1) <= T(y2)

\* C1, witness: the pass has painted all 300 rows, from t = 240 in the top
\* row to a larger t in the bottom row.
GradientMonotoneWitness ==
    /\ pc = "title_font"
    /\ PaintedRows = Rows
    /\ T(0) = 240
    /\ T(Height - 1) = 254

\* C2, as claimed: every channel of every row colour handed to draw.line is
\* an 8-bit intensity in 240..255.
ChannelsStayInRange ==
    \A r \in PaintedRows : \A c \in 1 .. 3 :
        PassedColor(r)[c] >= 240 /\ PassedColor(r)[c] <= 255

\* C2, amended: of the row colour (t, t+10, t+20) handed to draw.line only
\* the first channel stays an 8-bit intensity, in 240..254; the second is
\* t+10 in 250..264 and exceeds 255 exactly from row 120 on; the third is
\* t+20 in 260..274 and exceeds 255 in every row.
ChannelsAsPassed ==
    \A r \in PaintedRows :
        LET c == PassedColor(r) IN
        /\ c[1] >= 240 /\ c[1] <= 254
        /\ c[2] = c[1] + 10 /\ c[2] >= 250 /\ c[2] <= 264
        /\ c[3] = c[1] + 20 /\ c[3] >= 260 /\ c[3] <= 274
        /\ (c[2] > 255) <=> (r >= 120)
        /\ c[3] > 255

\* C2, witness: the bottom row has been painted, with (254, 264, 274).
ChannelsAsPassedWitness ==
    /\ Height - 1 \in PaintedRows
    /\ PassedColor(Height - 1) = << 254, 264, 274 >>

TitleLoaded == pc \notin { "gradient", "title_font" }
SubtitleLoaded == TitleLoaded /\ pc \notin { "title_measure", "title_shadow",
                                              "title_text", "subtitle_font" }
\* The loads of the title's chain: one when Arial loads, two when not.
TitleLoads == IF loads[1][3] THEN 1 ELSE 2
\* A run fails in os.makedirs or in image.save, and nowhere else.
FailedInOutput ==
    pc = "failed" =>
        \/ mkdirs = << FALSE >> /\ saves = << >>
        \/ mkdirs = << TRUE >> /\ saves = << FALSE >>

\* C3: the title font is Arial at 24 exactly when that load succeeds;
\* when it fails Helvetica at 24 is tried next, and the title font is
\* Helvetica exactly when that load succeeds, and the built-in font
\* otherwise.  Helvetica is not tried when Arial loads, and no failed load
\* fails the run.
TitleFallbackOrdered ==
    /\ ~TitleLoaded => loads = << >> /\ font = NoFont
    /\ TitleLoaded =>
         /\ Len(loads) >= TitleLoads
         /\ loads[1][1] = ArialPath /\ loads[1][2] = 24
         /\ (font = Truetype(ArialPath, 24)) <=> loads[1][3]
         /\ ~loads[1][3] =>
              /\ loads[2][1] = HelveticaPath /\ loads[2][2] = 24
              /\ (font = Truetype(HelveticaPath, 24)) <=> loads[2][3]
              /\ (font = DefaultFont) <=> ~loads[2][3]
         /\ loads[1][3] =>
              \A n \in 1 .. Len(loads) : loads[n][1] # HelveticaPath
         /\ font \in { Truetype(ArialPath, 24), Truetype(HelveticaPath, 24),
                       DefaultFont }
    /\ FailedInOutput

\* C3, witness: a run in which Arial failed to load and Helvetica loaded
\* has ended well, its title drawn in Helvetica.
TitleFallbackWitness ==
    /\ pc = "done"
    /\ loads[1] = << ArialPath, TitleSize, FALSE >>
    /\ loads[2] = << HelveticaPath, TitleSize, TRUE >>
    /\ font = Truetype(HelveticaPath, TitleSize)
    /\ image.texts[2].font = font

\* C4: whatever the title's chain did, the subtitle makes one load, of
\* Arial at 16; the subtitle font is Arial at 16 exactly when it succeeds
\* and the built-in font otherwise, Helvetica is not tried at 16, and no
\* failed load fails the run.
SubtitleSingleAttempt ==
    /\ ~SubtitleLoaded => small_font = NoFont
    /\ ~SubtitleLoaded => \A n \in 1 .. Len(loads) : loads[n][2] # 16
    /\ SubtitleLoaded =>
         /\ Len(loads) = TitleLoads + 1
         /\ loads[Len(loads)][1] = ArialPath
         /\ loads[Len(loads)][2] = 16
         /\ \A n \in 1 .. TitleLoads : loads[n][2] = 24
         /\ (small_font = Truetype(ArialPath, 16)) <=> loads[Len(loads)][3]
         /\ (small_font = DefaultFont) <=> ~loads[Len(loads)][3]
    /\ FailedInOutput

\* C4, witness: a run has ended well with the title in Helvetica and the
\* subtitle in the built-in font, Helvetica never tried at 16.
SubtitleSingleAttemptWitness ==
    /\ pc = "done"
    /\ font = Truetype(HelveticaPath, TitleSize)
    /\ small_font = DefaultFont
    /\ loads = << << ArialPath, TitleSize, FALSE >>,
                  << HelveticaPath, TitleSize, TRUE >>,
                  << ArialPath, SubtitleSize, FALSE >> >>
    /\ image.texts[4].font = DefaultFont

\* The foreground draws: the title's is the second text call, the
\* subtitle's the fourth.
ForegroundCalls == { n \in { 2, 4 } : n <= Len(image.texts) }
\* floor(n / 2), stated without \div.
FloorHalf(n) == CHOOSE q \in -(Width + MaxTextWidth) .. (Width + MaxTextWidth) :
                    2 * q <= n /\ n < 2 * q + 2

\* C5, as claimed: every foreground text is drawn at the x that is
\* (500 - w) / 2 rounded toward zero, w the measured width, also for w > 500.
CenteredTowardZero ==
    \A n \in ForegroundCalls :
        image.texts[n].x = TruncDiv(500 - BBoxWidth(image.texts[n].bbox), 2)

\* C5, amended: every foreground text is drawn at the x that is
\* (500 - w) / 2 rounded down (toward minus infinity); that is the value
\* rounded toward zero whenever w <= 500 or 500 - w is even, and one less
\* when w > 500 and 500 - w is odd.
CenteredRoundedDown ==
    \A n \in ForegroundCalls :
        LET w == BBoxWidth(image.texts[n].bbox)
            left == image.texts[n].x
        IN  /\ left = FloorHalf(500 - w)
            /\ (w <= 500 \/ (500 - w) % 2 = 0) => left = TruncDiv(500 - w, 2)
            /\ (w > 500 /\ (500 - w) % 2 = 1) => left = TruncDiv(500 - w, 2) - 1

\* C5, witness: the title has been drawn with a measured width over 500
\* that differs from 500 by an odd number.
CenteredRoundedDownWitness ==
    /\ 2 \in ForegroundCalls
    /\ BBoxWidth(image.texts[2].bbox) > 500
    /\ (500 - BBoxWidth(image.texts[2].bbox)) % 2 = 1
    /\ image.texts[2].x < 0

\* C6: width and height stay 500 and 300; no row is painted twice; the
\* gradient pass paints row after row, each from x = 0 to x = 499, so when
\* it is over every pixel has been written once by it; and no text is
\* drawn before it is over.
CanvasPaintedOnce ==
    /\ width = 500 /\ height = 300
    /\ \A r \in Rows :
         /\ Len(image.lines[r]) <= 1
         /\ (r < i) <=> (Len(image.lines[r]) = 1)
         /\ r \in PaintedRows =>
              image.lines[r][1].x0 = 0 /\ image.lines[r][1].x1 = 499
    /\ GradientDone => PaintedRows = Rows
    /\ image.texts # << >> => GradientDone /\ PaintedRows = Rows

\* C6, witness: the gradient is complete and the first text call (a
\* shadow) has just been made over it.
CanvasPaintedOnceWitness ==
    /\ pc = "title_text"
    /\ Len(image.texts) = 1
    /\ PaintedRows = Rows
    /\ i = Height

\* The canvas pixels a text call covers.
CanvasPixels(op) ==
    { << px, py >> \in
        (Max(0, op.x + op.bbox[1]) .. Min(Width - 1, op.x + op.bbox[3] - 1))
        \X (Max(0, op.y + op.bbox[2]) .. Min(Height - 1, op.y + op.bbox[4] - 1)) :
        Covers(op, px, py) }

\* C7: the text calls come in the order title shadow, title, subtitle
\* shadow, subtitle; each shadow is the same string in the same font, at
\* (+2,+2) in (100,100,100) for the title and at (+1,+1) in (120,120,120)
\* for the subtitle; and in the canvas of a finished run no pixel that a
\* foreground covers holds the shadow colour of its string.
ShadowBeforeForeground ==
    LET t == image.texts IN
    /\ Len(t) <= 4
    /\ Len(t) >= 1 => t[1].string = title /\ t[1].fill = << 100, 100, 100 >>
    /\ Len(t) >= 2 =>
         /\ t[2].string = title /\ t[2].fill = << 50, 50, 50 >>
         /\ t[1].x = t[2].x + 2 /\ t[1].y = t[2].y + 2
         /\ t[1].font = t[2].font /\ t[1].bbox = t[2].bbox
    /\ Len(t) >= 3 => t[3].string = subtitle /\ t[3].fill = << 120, 120, 120 >>
    /\ Len(t) >= 4 =>
         /\ t[4].string = subtitle /\ t[4].fill = << 80, 80, 80 >>
         /\ t[3].x = t[4].x + 1 /\ t[3].y = t[4].y + 1
         /\ t[3].font = t[4].font /\ t[3].bbox = t[4].bbox
    /\ pc = "done" =>
         /\ Len(t) = 4
         /\ \A p \in CanvasPixels(t[2]) :
                PixelAt(image, p[1], p[2]) # << 100, 100, 100 >>
         /\ \A p \in CanvasPixels(t[4]) :
                PixelAt(image, p[1], p[2]) # << 120, 120, 120 >>

\* C7, witness: a finished run in which the title's shadow and foreground
\* overlap on the canvas, and an overlapped pixel shows the foreground.
ShadowBeforeForegroundWitness ==
    /\ pc = "done"
    /\ \E p \in CanvasPixels(image.texts[2]) :
         /\ Covers(image.texts[1], p[1], p[2])
         /\ PixelAt(image, p[1], p[2]) = << 50, 50, 50 >>

\* C8: at most one line is printed, the confirmation line, and only in a
\* run whose makedirs and save both succeeded, after the save; a run ends
\* well with the line printed; makedirs and save are each called at most
\* once; a run in which one of them fails prints nothing and takes no
\* further step.
ConfirmationOnlyAfterWrite ==
    /\ Len(stdout) <= 1
    /\ Len(mkdirs) <= 1 /\ Len(saves) <= 1
    /\ stdout # << >> =>
         /\ stdout = << ConfirmationLine >>
         /\ mkdirs = << TRUE >> /\ saves = << TRUE >>
         /\ file = PngOf(image)
         /\ pc = "done"
    /\ pc = "done" => stdout = << ConfirmationLine >>
    /\ (mkdirs = << FALSE >> \/ saves = << FALSE >>) =>
         /\ pc = "failed"
         /\ stdout = << >>
         /\ ~ENABLED Next
    /\ mkdirs = << FALSE >> => saves = << >>
    /\ FailedInOutput

\* C8, witness: a run whose makedirs and save succeeded has printed the line.
ConfirmationWitness ==
    /\ pc = "done"
    /\ mkdirs = << TRUE >> /\ saves = << TRUE >>
    /\ stdout = << ConfirmationLine >>

\* C9: makedirs is called before save, after the gradient and the four
\* text calls; it does not fail when the directory is there; save is
\* attempted only with the directory there, at most once, and exactly once
\* in a run that ends well; a run that starts without the directory and
\* ends well has created it.
DirectoryBeforeSingleWrite ==
    /\ mkdirs # << >> => PaintedRows = Rows /\ Len(image.texts) = 4
    /\ saves # << >> => mkdirs = << TRUE >> /\ dirExists
    /\ pc = "save" => mkdirs = << TRUE >> /\ dirExists
    /\ dirAtStart => mkdirs # << FALSE >>
    /\ Len(saves) <= 1
    /\ pc = "done" => saves = << TRUE >> /\ dirExists /\ file = PngOf(image)
    /\ file.state = "png" => saves = << TRUE >>

\* C9, witness: a run that started without the directory has ended well,
\* the directory created and the file written.
DirectoryCreatedWitness ==
    /\ pc = "done"
    /\ ~dirAtStart
    /\ dirExists
    /\ file = PngOf(image)

\* C10: a later run on the same host repeats the drawing calls of the run
\* before it, call for call, ends its drawing with the same canvas, and,
\* when both runs end well, writes the same contents, whether or not the
\* directory or the file was there when either run started.
RunsAgree ==
    run > 1 =>
        /\ \A r \in Rows : image.lines[r] # << >> =>
               image.lines[r] = prev.image.lines[r]
        /\ Len(image.texts) <= Len(prev.image.texts)
        /\ image.texts = SubSeq(prev.image.texts, 1, Len(image.texts))
        /\ DrawingDone => image = prev.image
        /\ (pc = "done" /\ prev.wrote) =>
               file.data = prev.data /\ file = PngOf(prev.image)

\* C10, witness: a run that found neither directory nor file ended well,
\* and the next run, which found both, ended well with the same contents.
RunsAgreeWitness ==
    /\ run = 2
    /\ pc = "done"
    /\ prev.wrote
    /\ dirAtStart
    /\ file.data = prev.data
    /\ Len(file.data.texts) = 4
    /\ file.data.texts[2].font = Truetype(HelveticaPath, TitleSize)
====
